---- MODULE Spec2Model ----
(***************************************************************************)
(* A model of falib/archiver.go: the archiving pipeline of fast-archiver.   *)
(*                                                                          *)
(* AddDir registers roots, Run starts the directory scanners, the file      *)
(* readers and the terminator goroutine and then runs archiveWriter, which  *)
(* serialises the blocks of blockQueue through a bufio.Writer and a running *)
(* CRC.  Every goroutine is a process of the model; every channel           *)
(* operation, WaitGroup operation and access of a.error is a step of its    *)
(* own.                                                                     *)
(*                                                                          *)
(* Paths are sequences of one-character strings, so that HasPrefix, Join,   *)
(* Match and the encoding of a path into bytes are computed, not assumed.   *)
(***************************************************************************)
EXTENDS Integers, Sequences, FiniteSets, Bags, TLC

(***************************************************************************)
(* Bounds of the model.                                                     *)
(***************************************************************************)
\* DirReaderCount, FileReaderCount: the sizes of the two worker pools
DirReaderCount == 2
FileReaderCount == 1
\* DirScanQueueSize, FileReadQueueSize, BlockQueueSize: channel capacities
DirScanQueueSize == 2
FileReadQueueSize == 1
BlockQueueSize == 1
\* the number of AddDir calls of a run
MaxRoots == 2
\* the number of blocks the producers of the writer-only specification send
MaxBlocks == 2001

(***************************************************************************)
(* Program constants.                                                       *)
(***************************************************************************)
\* archiveWriter: a Checksum block after every 1000 blocks
ChecksumInterval == 1000
\* bufio.NewWriter(output): the default buffer size of package bufio
BufSize == 4096
\* the chunk size of fileReader's buffer; BlockSize is declared in a file of
\* the package that is not part of the sources, the value is the format's
BlockSize == 65536
\* the length of fastArchiverHeader, declared in the same missing file
HeaderLen == 8
\* uint16(...): the width of Block.numBytes and of the length fields
Uint16 == 65536
\* the running hash is kept modulo HashMod (see crcWrite)
HashMod == 32749
HashMul == 31

(***************************************************************************)
(* F applied to the value of e.  TLC evaluates an operator's argument each *)
(* time the operator's body uses it; the operators below that use a        *)
(* computed value more than once take it through With.                     *)
(***************************************************************************)
With(e, F(_)) == CHOOSE r \in {F(v) : v \in {e}} : TRUE

(***************************************************************************)
(* Characters and paths.                                                    *)
(***************************************************************************)
Sep == "/"

\* []byte(s): the byte of a character
Ord(c) ==
  CASE c = "/" -> 47
    [] c = "*" -> 42
    [] c = "." -> 46
    [] c = "a" -> 97
    [] c = "d" -> 100
    [] c = "e" -> 101
    [] c = "f" -> 102
    [] c = "g" -> 103
    [] c = "s" -> 115
    [] c = "x" -> 120
    [] OTHER -> 63

\* strings.HasPrefix(directoryPath, "/")
HasPrefixSlash(p) == Len(p) > 0 /\ p[1] = Sep

\* the components of a path: the maximal runs without a separator
RECURSIVE ComponentsOf(_)
ComponentsOf(p) ==
  IF p = <<>> THEN <<>>
  ELSE LET I == {i \in 1..Len(p) : p[i] = Sep}
       IN IF I = {} THEN <<p>>
          ELSE LET k == CHOOSE i \in I : \A j \in I : i <= j
               IN <<SubSeq(p, 1, k - 1)>> \o With(SubSeq(p, k + 1, Len(p)), ComponentsOf)
Components(p) == With(p, ComponentsOf)

\* filepath.Clean on the components: "" and "." are dropped, ".." removes
\* the component before it
RECURSIVE CleanComponents(_, _)
CleanComponents(cs, acc) ==
  IF cs = <<>> THEN acc
  ELSE LET c == Head(cs)
       IN IF c = <<>> \/ c = <<".">> THEN CleanComponents(Tail(cs), acc)
          ELSE IF c = <<".", ".">> /\ acc # <<>> /\ acc[Len(acc)] # <<".", ".">>
               THEN CleanComponents(Tail(cs), SubSeq(acc, 1, Len(acc) - 1))
               ELSE CleanComponents(Tail(cs), Append(acc, c))

RECURSIVE JoinComponents(_)
JoinComponents(cs) ==
  IF cs = <<>> THEN <<>>
  ELSE IF Len(cs) = 1 THEN cs[1]
       ELSE cs[1] \o <<Sep>> \o JoinComponents(Tail(cs))

\* filepath.Clean
Clean(p) ==
  With(JoinComponents(CleanComponents(Components(p), <<>>)),
       LAMBDA body : IF HasPrefixSlash(p) THEN <<Sep>> \o body
                     ELSE IF body = <<>> THEN <<".">> ELSE body)

\* filepath.Join(directoryPath, fileName)
Join(dir, name) ==
  IF dir = <<>> /\ name = <<>> THEN <<>>
  ELSE IF dir = <<>> THEN Clean(name)
  ELSE IF name = <<>> THEN Clean(dir)
  ELSE Clean(dir \o <<Sep>> \o name)

\* filepath.Match(pattern, name) for patterns of literal characters, "?" and
\* "*": a star matches any run of characters without a separator
RECURSIVE Match(_, _)
Match(pat, name) ==
  IF pat = <<>> THEN name = <<>>
  ELSE IF pat[1] = "*"
       THEN \/ Match(Tail(pat), name)
            \/ name # <<>> /\ name[1] # Sep /\ Match(pat, Tail(name))
       ELSE /\ name # <<>>
            /\ \/ pat[1] = name[1]
               \/ pat[1] = "?" /\ name[1] # Sep
            /\ Match(Tail(pat), Tail(name))

(***************************************************************************)
(* The file system the run reads (the "filesystem capability"): a fixed    *)
(* tree.  Any open, lstat or read of it may fail when it is made.          *)
(*                                                                          *)
(*   a/            directory, listed as d, s                                *)
(*   a/d/          directory, listed as f, g                                *)
(*   a/d/f         regular file of BlockSize + BufSize + 1 bytes            *)
(*   a/d/g         empty regular file                                       *)
(*   a/s           symbolic link to a/d                                     *)
(*   s             symbolic link to the empty directory e                   *)
(*   e/            empty directory                                          *)
(*   w/            directory, listed as x, y, z                             *)
(*   w/x/ w/y/ w/z/   empty directories                                     *)
(***************************************************************************)
PathA == <<"a">>
PathD == <<"a", "/", "d">>
PathF == <<"a", "/", "d", "/", "f">>
PathG == <<"a", "/", "d", "/", "g">>
PathAS == <<"a", "/", "s">>
PathS == <<"s">>
PathE == <<"e">>
PathAbs == <<"/", "x">>
PathW == <<"w">>
PathWX == <<"w", "/", "x">>
PathWY == <<"w", "/", "y">>
PathWZ == <<"w", "/", "z">>

\* what lstat reports for a path (a link is not followed)
NodeKind(p) ==
  CASE p = PathA -> "dir"
    [] p = PathD -> "dir"
    [] p = PathF -> "file"
    [] p = PathG -> "file"
    [] p = PathAS -> "symlink"
    [] p = PathS -> "symlink"
    [] p = PathE -> "dir"
    [] p \in {PathW, PathWX, PathWY, PathWZ} -> "dir"
    [] OTHER -> "none"

\* the node os.Open reaches: open follows a symbolic link
Resolve(p) ==
  CASE p = PathAS -> PathD
    [] p = PathS -> PathE
    [] OTHER -> p

\* the names Readdirnames returns for an open directory, in order
EntryNames(p) ==
  CASE p = PathA -> << <<"d">>, <<"s">> >>
    [] p = PathD -> << <<"f">>, <<"g">> >>
    [] p = PathW -> << <<"x">>, <<"y">>, <<"z">> >>
    [] OTHER -> <<>>

\* the size of a regular file, in bytes
FileSize(p) ==
  CASE p = PathF -> BlockSize + BufSize + 1
    [] OTHER -> 0

\* fi.Sys().(*syscall.Stat_t): owner, group; fi.Mode() as its four bytes
StatUid(p) == 1
StatGid(p) == 2
StatMode(p) ==
  IF NodeKind(Resolve(p)) = "dir" THEN <<128, 0, 1, 237>> ELSE <<0, 0, 1, 164>>

\* a pattern for the ExcludePatterns field: it matches a/d/f alone
PatternF == <<"a", "/", "*", "/", "f">>

\* What the caller does with an Archiver: the ExcludePatterns it sets, the
\* paths it registers before it calls Run, and those another goroutine
\* registers once Run has started.
Plan(exclude, early, late) == [exclude |-> exclude, early |-> early, late |-> late]
AllPlans ==
  { Plan(<<>>, <<PathA>>, <<>>),
    Plan(<<PatternF>>, <<PathAbs, PathA>>, <<>>),
    Plan(<<>>, <<PathS, PathS>>, <<>>),
    Plan(<<>>, <<PathG>>, <<>>),
    Plan(<<>>, <<>>, <<PathD>>),
    Plan(<<>>, <<PathS>>, <<PathAbs>>),
    Plan(<<>>, <<PathD, PathAbs, PathS>>, <<>>),
    Plan(<<>>, <<PathW>>, <<>>),
    Plan(<<>>, <<PathAbs, PathAbs>>, <<>>) }
RunPlans == {p \in AllPlans : Len(p.early) + Len(p.late) <= MaxRoots}

(***************************************************************************)
(* Blocks and their encoding (Block.writeBlock, writeChecksumBlock).       *)
(***************************************************************************)
ErrNil == "nil"
ErrAbsoluteDirectoryPath == "ErrAbsoluteDirectoryPath"
ErrSink == "sink write error"

blockTypeData == "Data"
blockTypeStartOfFile == "StartOfFile"
blockTypeEndOfFile == "EndOfFile"
blockTypeDirectory == "Directory"
blockTypeChecksum == "Checksum"

\* byte(b.blockType): the tags are declared in the missing file
TypeTag(t) ==
  CASE t = blockTypeData -> 0
    [] t = blockTypeStartOfFile -> 1
    [] t = blockTypeEndOfFile -> 2
    [] t = blockTypeDirectory -> 3
    [] t = blockTypeChecksum -> 4

\* Block{filePath, numBytes, buffer, blockType, uid, gid, mode}.  A buffer is
\* <<bytes read into it, the byte they all are>>; nil is <<>>.
Block(filePath, numBytes, buffer, blockType, uid, gid, mode) ==
  [filePath |-> filePath, numBytes |-> numBytes, buffer |-> buffer,
   blockType |-> blockType, uid |-> uid, gid |-> gid, mode |-> mode]

NilBuffer == <<>>
NoMode == <<0, 0, 0, 0>>

\* uint16(bytesRead)
ToUint16(n) == n % Uint16

\* A byte string is a sequence of runs <<byte, count>>.
Bytes1(b) == << <<b, 1>> >>
BigEndian16(n) == << <<(n \div 256) % 256, 1>>, <<n % 256, 1>> >>
BigEndian32(n) ==
  << <<(n \div 16777216) % 256, 1>>, <<(n \div 65536) % 256, 1>>,
     <<(n \div 256) % 256, 1>>, <<n % 256, 1>> >>
BigEndian64(n) == << <<0, 4>> >> \o BigEndian32(n)
PathBytes(p) == [i \in 1..Len(p) |-> <<Ord(p[i]), 1>>]
ModeBytes(m) == [i \in 1..4 |-> <<m[i], 1>>]

\* b.buffer[:b.numBytes]
BufferSlice(buffer, numBytes) ==
  IF numBytes = 0 THEN <<>> ELSE << <<buffer[2], numBytes>> >>

\* writeBlock: the byte strings it hands to output.Write, one per call
WriteBlockCalls(b) ==
  << BigEndian16(ToUint16(Len(b.filePath))), PathBytes(b.filePath),
     Bytes1(TypeTag(b.blockType)) >>
  \o CASE b.blockType \in {blockTypeDirectory, blockTypeStartOfFile} ->
            << BigEndian32(b.uid), BigEndian32(b.gid), ModeBytes(b.mode) >>
       [] b.blockType = blockTypeEndOfFile -> <<>>
       [] b.blockType = blockTypeData ->
            << BigEndian16(b.numBytes), BufferSlice(b.buffer, b.numBytes) >>

\* writeChecksumBlock: the calls before the value, and the value
ChecksumPrefixCalls == << BigEndian16(0), Bytes1(TypeTag(blockTypeChecksum)) >>
ChecksumCalls(sum) == ChecksumPrefixCalls \o << BigEndian64(sum) >>

\* fastArchiverHeader
HeaderBytes == << <<102, HeaderLen>> >>

\* what the stream holds for a Checksum block
ChecksumBlock(sum) == [blockType |-> blockTypeChecksum, value |-> sum]

RECURSIVE RunsLen(_)
RunsLen(runs) == IF runs = <<>> THEN 0 ELSE runs[1][2] + RunsLen(Tail(runs))

(***************************************************************************)
(* The running hash.  hash/crc64 updates its state byte by byte with a map *)
(* that is affine over GF(2); the model keeps that shape with an affine map *)
(* modulo HashMod, <<m, a>> standing for h |-> (m * h + a) % HashMod, so    *)
(* that the hash of a long run of bytes is computed by repeated squaring.  *)
(***************************************************************************)
IdMap == <<1, 0>>
ByteMap(b) == <<HashMul, (b + 1) % HashMod>>
\* first f, then g
ComposePair(fg) ==
  <<(fg[1][1] * fg[2][1]) % HashMod, (fg[2][1] * fg[1][2] + fg[2][2]) % HashMod>>
Compose(f, g) == With(<<f, g>>, ComposePair)
Square(f) == With(f, LAMBDA h : Compose(h, h))

RECURSIVE PowMap(_, _)
PowMap(f, k) ==
  IF k = 0 THEN IdMap
  ELSE IF k % 2 = 0 THEN Square(PowMap(f, k \div 2))
       ELSE Compose(Square(PowMap(f, k \div 2)), f)

RECURSIVE RunsMap(_)
RunsMap(runs) ==
  IF runs = <<>> THEN IdMap
  ELSE Compose(PowMap(ByteMap(runs[1][1]), runs[1][2]), RunsMap(Tail(runs)))

RECURSIVE CallsMap(_)
CallsMap(calls) ==
  IF calls = <<>> THEN IdMap
  ELSE Compose(RunsMap(calls[1]), CallsMap(Tail(calls)))

ApplyMap(f, h) == (f[1] * h + f[2]) % HashMod

\* crc64.New(...)
crcNew == 0
\* hash.Write, for every call of a sequence of output.Write calls
crcWrite(h, calls) == ApplyMap(CallsMap(calls), h)
\* hash.Sum64()
crcSum64(h) == h

(***************************************************************************)
(* bufio.Writer: n bytes are buffered of BufSize; a Write that does not fit *)
(* flushes the buffer to the sink, and writes to the sink directly when the *)
(* buffer is empty.  <<buffered, touched>>: the bytes buffered afterwards   *)
(* and whether the sink was written to.                                     *)
(***************************************************************************)
bufioWriteSize(bn) ==
  IF bn[2] <= BufSize - bn[1] THEN <<bn[1] + bn[2], FALSE>>
  ELSE IF bn[1] = 0 THEN <<0, TRUE>>
  ELSE LET rest == bn[2] - (BufSize - bn[1])
       IN IF rest > BufSize THEN <<0, TRUE>> ELSE <<rest, TRUE>>
bufioWrite(buffered, n) == With(<<buffered, n>>, bufioWriteSize)

RECURSIVE bufioWriteCalls(_, _)
bufioWriteCalls(buffered, calls) ==
  IF calls = <<>> THEN <<buffered, FALSE>>
  ELSE With(bufioWrite(buffered, RunsLen(calls[1])),
            LAMBDA one : With(bufioWriteCalls(one[1], Tail(calls)),
                              LAMBDA more : <<more[1], one[2] \/ more[2]>>))

(***************************************************************************)
(* The state of an Archiver and of the goroutines of a run.  The model     *)
(* follows a run until Run returns.                                         *)
(***************************************************************************)
VARIABLES
  plan,                \* what the caller does (see Plan)
  ExcludePatterns,     \* the exported field, set by the caller
  excludePatterns,     \* the field directoryScanner consults
  faults,              \* the file system operations that have failed
  roots,               \* the paths AddDir was called with, in order
  rootsBeforeRun,      \* how many of them were registered when Run started
  addPc, addPath,      \* the AddDir call in progress
  directoryScanQueue, fileReadQueue, blockQueue,
  workInProgress,      \* the counter of the sync.WaitGroup
  error,               \* a.error
  scanner,             \* the directoryScanner goroutines, a bag of their states
  reenqueue,           \* the goroutines of line 150-152, a bag of paths
  reader,              \* the fileReader goroutines, a bag of their states
  terminator,          \* the goroutine of lines 79-84
  runPc,               \* Run and the archiveWriter it calls
  blockCount, hash, buffered, writerErr, retval,
  stream,              \* the blocks archiveWriter has written to output
  sinkFailed,          \* a write to the sink has returned an error
  panicked,            \* the process died in a runtime panic
  produced             \* blocks sent by the producers (writer-only runs)

vars ==
  <<plan, ExcludePatterns, excludePatterns, faults, roots, rootsBeforeRun,
    addPc, addPath, directoryScanQueue, fileReadQueue, blockQueue,
    workInProgress, error, scanner, reenqueue, reader, terminator, runPc,
    blockCount, hash, buffered, writerErr, retval, stream, sinkFailed,
    panicked, produced>>

\* a channel: nil until made
NilChan == [made |-> FALSE, buf |-> <<>>, closed |-> FALSE]
MakeChan == [made |-> TRUE, buf |-> <<>>, closed |-> FALSE]
HasRoom(ch, cap) == ch.made /\ ~ch.closed /\ Len(ch.buf) < cap
CanReceive(ch) == ch.made /\ ch.buf # <<>>
\* a range that ends as soon as the channel is closed
DrainedMutant(ch) == ch.made /\ ch.closed
Drained(ch) == ch.made /\ ch.closed /\ ch.buf = <<>>
Send(ch, v) == [ch EXCEPT !.buf = Append(@, v)]
Receive(ch) == [ch EXCEPT !.buf = Tail(@)]
Close(ch) == [ch EXCEPT !.closed = TRUE]
PanicClosed == "send on closed channel"
PanicAddDir == "AddDir: send on closed channel"

\* the process runs: no panic, and Run has not returned
Alive == panicked = "none" /\ runPc # "returned"

\* a goroutine of a pool changes its state (goroutines have no identity)
Swap(bag, old, new) == (bag (-) SetToBag({old})) (+) SetToBag({new})

\* a scanner between two paths, and a reader between two files
ScannerIdle == [pc |-> "recv", directoryPath |-> <<>>, names |-> <<>>, filePath |-> <<>>]
ReaderIdle == [pc |-> "recv", filePath |-> <<>>, offset |-> 0]

\* NewArchiver, and the caller's configuration of the exported fields
InitArchiver ==
  /\ excludePatterns = <<>>
  /\ faults = {}
  /\ roots = <<>>
  /\ rootsBeforeRun = 0
  /\ addPc = "idle"
  /\ addPath = <<>>
  /\ workInProgress = 0
  /\ error = ErrNil
  /\ scanner = EmptyBag
  /\ reenqueue = EmptyBag
  /\ reader = EmptyBag
  /\ blockCount = 0
  /\ hash = crcNew
  /\ buffered = 0
  /\ writerErr = ErrNil
  /\ retval = ErrNil
  /\ stream = <<>>
  /\ sinkFailed = FALSE
  /\ panicked = "none"
  /\ produced = 0

Init ==
  /\ plan \in RunPlans
  /\ ExcludePatterns = plan.exclude
  /\ InitArchiver
  /\ directoryScanQueue = NilChan
  /\ fileReadQueue = NilChan
  /\ blockQueue = NilChan
  /\ terminator = "off"
  /\ runPc = "new"

(***************************************************************************)
(* AddDir (lines 56-62).                                                    *)
(***************************************************************************)
\* the path of the next AddDir call: before Run the caller's own thread
\* registers plan.early, after that another goroutine registers plan.late
NextRoot ==
  IF runPc = "new" THEN plan.early[Len(roots) + 1]
  ELSE plan.late[Len(roots) + 1 - rootsBeforeRun]
RootsLeft ==
  IF runPc = "new" THEN Len(roots) < Len(plan.early)
  ELSE Len(roots) - rootsBeforeRun < Len(plan.late)

\* lines 57-60: make the queue if it is nil, workInProgress.Add(1)
AddDirCall ==
  /\ Alive
  /\ addPc = "idle"
  /\ RootsLeft
  /\ roots' = Append(roots, NextRoot)
  /\ directoryScanQueue' =
       IF directoryScanQueue.made THEN directoryScanQueue ELSE MakeChan
  /\ workInProgress' = workInProgress + 1
  /\ addPc' = "send"
  /\ addPath' = NextRoot
  /\ UNCHANGED <<plan, ExcludePatterns, excludePatterns, faults,
                 rootsBeforeRun, fileReadQueue, blockQueue, error, scanner,
                 reenqueue, reader, terminator, runPc, blockCount, hash,
                 buffered, writerErr, retval, stream, sinkFailed, panicked,
                 produced>>

\* line 61: a.directoryScanQueue <- directoryPath
AddDirSend ==
  /\ Alive
  /\ addPc = "send"
  /\ directoryScanQueue.closed \/ HasRoom(directoryScanQueue, DirScanQueueSize)
  /\ IF directoryScanQueue.closed
     THEN /\ panicked' = PanicAddDir
          /\ UNCHANGED <<directoryScanQueue, addPc, addPath>>
     ELSE /\ directoryScanQueue' = Send(directoryScanQueue, addPath)
          /\ addPc' = "idle"
          /\ addPath' = <<>>
          /\ UNCHANGED panicked
  /\ UNCHANGED <<plan, ExcludePatterns, excludePatterns, faults, roots,
                 rootsBeforeRun, fileReadQueue, blockQueue, workInProgress,
                 error, scanner, reenqueue, reader, terminator, runPc,
                 blockCount, hash, buffered, writerErr, retval, stream,
                 sinkFailed, produced>>

(***************************************************************************)
(* Run (lines 64-93) up to the call of archiveWriter, and the terminator.  *)
(***************************************************************************)
\* the pool a loop of go statements starts
Pool(state, count) == [w \in {state} |-> count]

\* lines 65-84: make the queues, reset a.error, start the goroutines
RunStart ==
  /\ Alive
  /\ runPc = "new"
  /\ addPc = "idle"
  /\ ~RootsLeft
  /\ directoryScanQueue' =
       IF directoryScanQueue.made THEN directoryScanQueue ELSE MakeChan
  /\ fileReadQueue' = MakeChan
  /\ blockQueue' = MakeChan
  /\ error' = ErrNil
  /\ scanner' = Pool(ScannerIdle, DirReaderCount)
  /\ reader' = Pool(ReaderIdle, FileReaderCount)
  /\ terminator' = "wait"
  /\ runPc' = "header"
  /\ rootsBeforeRun' = Len(roots)
  /\ UNCHANGED <<plan, ExcludePatterns, excludePatterns, faults, roots, addPc,
                 addPath, workInProgress, reenqueue, blockCount, hash,
                 buffered, writerErr, retval, stream, sinkFailed, panicked,
                 produced>>

\* a terminator that does not wait for the counter
TerminatorWaitMutant ==
  /\ Alive
  /\ terminator = "wait"
  /\ terminator' = "closeDirs"
  /\ UNCHANGED <<plan, ExcludePatterns, excludePatterns, faults, roots,
                 rootsBeforeRun, addPc, addPath, directoryScanQueue,
                 fileReadQueue, blockQueue, workInProgress, error, scanner,
                 reenqueue, reader, runPc, blockCount, hash, buffered,
                 writerErr, retval, stream, sinkFailed, panicked, produced>>

\* line 80: a.workInProgress.Wait()
TerminatorWait ==
  /\ Alive
  /\ terminator = "wait"
  /\ workInProgress = 0
  /\ terminator' = "closeDirs"
  /\ UNCHANGED <<plan, ExcludePatterns, excludePatterns, faults, roots,
                 rootsBeforeRun, addPc, addPath, directoryScanQueue,
                 fileReadQueue, blockQueue, workInProgress, error, scanner,
                 reenqueue, reader, runPc, blockCount, hash, buffered,
                 writerErr, retval, stream, sinkFailed, panicked, produced>>

\* line 81: close(a.directoryScanQueue)
TerminatorCloseDirs ==
  /\ Alive
  /\ terminator = "closeDirs"
  /\ directoryScanQueue' = Close(directoryScanQueue)
  /\ terminator' = "closeFiles"
  /\ UNCHANGED <<plan, ExcludePatterns, excludePatterns, faults, roots,
                 rootsBeforeRun, addPc, addPath, fileReadQueue, blockQueue,
                 workInProgress, error, scanner, reenqueue, reader, runPc,
                 blockCount, hash, buffered, writerErr, retval, stream,
                 sinkFailed, panicked, produced>>

\* line 82: close(a.fileReadQueue)
TerminatorCloseFiles ==
  /\ Alive
  /\ terminator = "closeFiles"
  /\ fileReadQueue' = Close(fileReadQueue)
  /\ terminator' = "closeBlocks"
  /\ UNCHANGED <<plan, ExcludePatterns, excludePatterns, faults, roots,
                 rootsBeforeRun, addPc, addPath, directoryScanQueue,
                 blockQueue, workInProgress, error, scanner, reenqueue,
                 reader, runPc, blockCount, hash, buffered, writerErr, retval,
                 stream, sinkFailed, panicked, produced>>

\* line 83: close(a.blockQueue)
TerminatorCloseBlocks ==
  /\ Alive
  /\ terminator = "closeBlocks"
  /\ blockQueue' = Close(blockQueue)
  /\ terminator' = "done"
  /\ UNCHANGED <<plan, ExcludePatterns, excludePatterns, faults, roots,
                 rootsBeforeRun, addPc, addPath, directoryScanQueue,
                 fileReadQueue, workInProgress, error, scanner, reenqueue,
                 reader, runPc, blockCount, hash, buffered, writerErr, retval,
                 stream, sinkFailed, panicked, produced>>

(***************************************************************************)
(* directoryScanner (lines 95-161), readdirnames (lines 294-311).          *)
(***************************************************************************)
\* os.Open can succeed: the path leads to a node, links followed
Exists(p) == NodeKind(Resolve(p)) # "none"

\* readdirnames: the names the channel delivers for an open handle
Readdirnames(p) == EntryNames(Resolve(p))

\* readdirnames closes its channel: Readdirnames reaches io.EOF.  On a handle
\* that is no directory every call returns an error that is not io.EOF, and
\* the loop of lines 297-307 goes round for ever.
ListingEnds(p) == NodeKind(Resolve(p)) = "dir"

\* lines 119-126: some pattern of a.excludePatterns matches
Excluded(filePath) ==
  \E k \in 1..Len(excludePatterns) : Match(excludePatterns[k], filePath)

\* (fileInfo.Mode() & os.ModeSymlink) != 0
IsSymlink(filePath) == NodeKind(filePath) = "symlink"

\* fileInfo.IsDir()
IsDir(filePath) == NodeKind(filePath) = "dir"

\* a scanner that takes every path for an absolute one
IsAbsoluteMutant(directoryPath) == TRUE
\* line 97: strings.HasPrefix(directoryPath, "/")
IsAbsolute(directoryPath) == HasPrefixSlash(directoryPath)

\* the block of line 114
DirectoryBlock(p) ==
  Block(p, 0, NilBuffer, blockTypeDirectory, StatUid(p), StatGid(p), StatMode(p))

\* a scanner that lists a directory without sending its Directory block
ScannerReceiveMutant(w) ==
  /\ Alive
  /\ w.pc = "recv"
  /\ CanReceive(directoryScanQueue) \/ Drained(directoryScanQueue)
  /\ IF CanReceive(directoryScanQueue)
     THEN LET p == Head(directoryScanQueue.buf)
          IN /\ directoryScanQueue' = Receive(directoryScanQueue)
             /\ IF IsAbsolute(p)
                THEN /\ scanner' = Swap(scanner, w, [w EXCEPT !.pc = "start", !.directoryPath = p])
                     /\ UNCHANGED <<workInProgress, faults>>
                ELSE \E opens \in {FALSE} \cup {Exists(p)} :
                       IF opens
                       THEN /\ scanner' = Swap(scanner, w, [w EXCEPT !.pc = "list", !.directoryPath = p,
                                                              !.names = Readdirnames(p)])
                            /\ UNCHANGED <<workInProgress, faults>>
                       ELSE /\ workInProgress' = workInProgress - 1
                            /\ faults' = faults \cup {<<"opendir", p>>}
                            /\ UNCHANGED scanner
     ELSE /\ scanner' = Swap(scanner, w, [w EXCEPT !.pc = "exit"])
          /\ UNCHANGED <<directoryScanQueue, workInProgress, faults>>
  /\ UNCHANGED <<plan, ExcludePatterns, excludePatterns, roots,
                 rootsBeforeRun, addPc, addPath, fileReadQueue, blockQueue,
                 error, reenqueue, reader, terminator, runPc, blockCount,
                 hash, buffered, writerErr, retval, stream, sinkFailed,
                 panicked, produced>>

\* lines 96-111: the range over directoryScanQueue takes the next path, or
\* ends; a path that is not absolute is opened, and on an error the scanner
\* calls Done() and takes the next
ScannerReceive(w) ==
  /\ Alive
  /\ w.pc = "recv"
  /\ CanReceive(directoryScanQueue) \/ Drained(directoryScanQueue)
  /\ IF CanReceive(directoryScanQueue)
     THEN LET p == Head(directoryScanQueue.buf)
          IN /\ directoryScanQueue' = Receive(directoryScanQueue)
             /\ IF IsAbsolute(p)
                THEN /\ scanner' = Swap(scanner, w, [w EXCEPT !.pc = "start", !.directoryPath = p])
                     /\ UNCHANGED <<workInProgress, faults>>
                ELSE \E opens \in {FALSE} \cup {Exists(p)} :
                       IF opens
                       THEN /\ scanner' = Swap(scanner, w, [w EXCEPT !.pc = "sendDir", !.directoryPath = p])
                            /\ UNCHANGED <<workInProgress, faults>>
                       ELSE /\ workInProgress' = workInProgress - 1
                            /\ faults' = faults \cup {<<"opendir", p>>}
                            /\ UNCHANGED scanner
     ELSE /\ scanner' = Swap(scanner, w, [w EXCEPT !.pc = "exit"])
          /\ UNCHANGED <<directoryScanQueue, workInProgress, faults>>
  /\ UNCHANGED <<plan, ExcludePatterns, excludePatterns, roots,
                 rootsBeforeRun, addPc, addPath, fileReadQueue, blockQueue,
                 error, reenqueue, reader, terminator, runPc, blockCount,
                 hash, buffered, writerErr, retval, stream, sinkFailed,
                 panicked, produced>>

\* line 98: a.error = ErrAbsoluteDirectoryPath
ScannerAbsolute(w) ==
  /\ Alive
  /\ w.pc = "start"
  /\ error' = ErrAbsoluteDirectoryPath
  /\ scanner' = Swap(scanner, w, [w EXCEPT !.pc = "absolute"])
  /\ UNCHANGED <<plan, ExcludePatterns, excludePatterns, faults, roots,
                 rootsBeforeRun, addPc, addPath, directoryScanQueue,
                 fileReadQueue, blockQueue, workInProgress, reenqueue, reader,
                 terminator, runPc, blockCount, hash, buffered, writerErr,
                 retval, stream, sinkFailed, panicked, produced>>

\* lines 99-100: workInProgress.Done(), continue
ScannerAbsoluteDone(w) ==
  /\ Alive
  /\ w.pc = "absolute"
  /\ workInProgress' = workInProgress - 1
  /\ scanner' = Swap(scanner, w, ScannerIdle)
  /\ UNCHANGED <<plan, ExcludePatterns, excludePatterns, faults, roots,
                 rootsBeforeRun, addPc, addPath, directoryScanQueue,
                 fileReadQueue, blockQueue, error, reenqueue, reader,
                 terminator, runPc, blockCount, hash, buffered, writerErr,
                 retval, stream, sinkFailed, panicked, produced>>

\* lines 113-116: send the Directory block, then call readdirnames
ScannerSendDir(w) ==
  /\ Alive
  /\ w.pc = "sendDir"
  /\ blockQueue.closed \/ HasRoom(blockQueue, BlockQueueSize)
  /\ IF blockQueue.closed
     THEN /\ panicked' = PanicClosed
          /\ UNCHANGED <<blockQueue, scanner>>
     ELSE /\ blockQueue' = Send(blockQueue, DirectoryBlock(w.directoryPath))
          /\ scanner' = Swap(scanner, w, [w EXCEPT !.pc = "list",
                                            !.names = Readdirnames(w.directoryPath)])
          /\ UNCHANGED panicked
  /\ UNCHANGED <<plan, ExcludePatterns, excludePatterns, faults, roots,
                 rootsBeforeRun, addPc, addPath, directoryScanQueue,
                 fileReadQueue, workInProgress, error, reenqueue, reader,
                 terminator, runPc, blockCount, hash, buffered, writerErr,
                 retval, stream, sinkFailed, produced>>

\* a scanner that sends a subdirectory to the directory queue itself
ScannerEntryMutant(w) ==
  /\ Alive
  /\ w.pc = "list"
  /\ w.names # <<>>
  /\ \E filePath \in {Join(w.directoryPath, Head(w.names))},
        next \in {[w EXCEPT !.names = Tail(w.names)]} :
        IF Excluded(filePath)
        THEN /\ scanner' = Swap(scanner, w, next)
             /\ UNCHANGED <<workInProgress, directoryScanQueue, faults>>
        ELSE \E lstatFails \in {TRUE} \cup {NodeKind(filePath) = "none"} :
               IF lstatFails \/ IsSymlink(filePath)
               THEN /\ scanner' = Swap(scanner, w, next)
                    /\ faults' = IF lstatFails THEN faults \cup {<<"lstat", filePath>>}
                                 ELSE faults
                    /\ UNCHANGED <<workInProgress, directoryScanQueue>>
               ELSE /\ workInProgress' = workInProgress + 1
                    /\ UNCHANGED faults
                    /\ IF IsDir(filePath)
                       THEN /\ HasRoom(directoryScanQueue, DirScanQueueSize)
                            /\ directoryScanQueue' = Send(directoryScanQueue, filePath)
                            /\ scanner' = Swap(scanner, w, next)
                       ELSE /\ scanner' = Swap(scanner, w, [next EXCEPT !.pc = "sendFile",
                                                              !.filePath = filePath])
                            /\ UNCHANGED directoryScanQueue
  /\ UNCHANGED <<plan, ExcludePatterns, excludePatterns, roots,
                 rootsBeforeRun, addPc, addPath, fileReadQueue, blockQueue,
                 error, reenqueue, reader, terminator, runPc, blockCount,
                 hash, buffered, writerErr, retval, stream, sinkFailed,
                 panicked, produced>>

\* lines 116-153: one entry of the listing: skipped, or counted and, when a
\* directory, handed to a goroutine of its own
ScannerEntry(w) ==
  /\ Alive
  /\ w.pc = "list"
  /\ w.names # <<>>
  /\ \E filePath \in {Join(w.directoryPath, Head(w.names))},
        next \in {[w EXCEPT !.names = Tail(w.names)]} :
        IF Excluded(filePath)
        THEN /\ scanner' = Swap(scanner, w, next)
             /\ UNCHANGED <<workInProgress, reenqueue, faults>>
        ELSE \E lstatFails \in {TRUE} \cup {NodeKind(filePath) = "none"} :
               IF lstatFails \/ IsSymlink(filePath)
               THEN /\ scanner' = Swap(scanner, w, next)
                    /\ faults' = IF lstatFails THEN faults \cup {<<"lstat", filePath>>}
                                 ELSE faults
                    /\ UNCHANGED <<workInProgress, reenqueue>>
               ELSE /\ workInProgress' = workInProgress + 1
                    /\ UNCHANGED faults
                    /\ IF IsDir(filePath)
                       THEN /\ reenqueue' = reenqueue (+) SetToBag({filePath})
                            /\ scanner' = Swap(scanner, w, next)
                       ELSE /\ scanner' = Swap(scanner, w, [next EXCEPT !.pc = "sendFile",
                                                              !.filePath = filePath])
                            /\ UNCHANGED reenqueue
  /\ UNCHANGED <<plan, ExcludePatterns, excludePatterns, roots,
                 rootsBeforeRun, addPc, addPath, directoryScanQueue,
                 fileReadQueue, blockQueue, error, reader, terminator, runPc,
                 blockCount, hash, buffered, writerErr, retval, stream,
                 sinkFailed, panicked, produced>>

\* line 154: a.fileReadQueue <- filePath
ScannerSendFile(w) ==
  /\ Alive
  /\ w.pc = "sendFile"
  /\ fileReadQueue.closed \/ HasRoom(fileReadQueue, FileReadQueueSize)
  /\ IF fileReadQueue.closed
     THEN /\ panicked' = PanicClosed
          /\ UNCHANGED <<fileReadQueue, scanner>>
     ELSE /\ fileReadQueue' = Send(fileReadQueue, w.filePath)
          /\ scanner' = Swap(scanner, w, [w EXCEPT !.pc = "list", !.filePath = <<>>])
          /\ UNCHANGED panicked
  /\ UNCHANGED <<plan, ExcludePatterns, excludePatterns, faults, roots,
                 rootsBeforeRun, addPc, addPath, directoryScanQueue,
                 blockQueue, workInProgress, error, reenqueue, reader,
                 terminator, runPc, blockCount, hash, buffered, writerErr,
                 retval, stream, sinkFailed, produced>>

\* a scanner that closes the directory and does not call Done()
ScannerCloseMutant(w) ==
  /\ Alive
  /\ w.pc = "list"
  /\ w.names = <<>>
  /\ ListingEnds(w.directoryPath)
  /\ scanner' = Swap(scanner, w, ScannerIdle)
  /\ UNCHANGED <<plan, ExcludePatterns, excludePatterns, faults, roots,
                 rootsBeforeRun, addPc, addPath, directoryScanQueue,
                 fileReadQueue, blockQueue, workInProgress, error, reenqueue,
                 reader, terminator, runPc, blockCount, hash, buffered,
                 writerErr, retval, stream, sinkFailed, panicked, produced>>

\* lines 158-159: the listing has ended: directory.Close(), Done()
ScannerClose(w) ==
  /\ Alive
  /\ w.pc = "list"
  /\ w.names = <<>>
  /\ ListingEnds(w.directoryPath)
  /\ workInProgress' = workInProgress - 1
  /\ scanner' = Swap(scanner, w, ScannerIdle)
  /\ UNCHANGED <<plan, ExcludePatterns, excludePatterns, faults, roots,
                 rootsBeforeRun, addPc, addPath, directoryScanQueue,
                 fileReadQueue, blockQueue, error, reenqueue, reader,
                 terminator, runPc, blockCount, hash, buffered, writerErr,
                 retval, stream, sinkFailed, panicked, produced>>

\* lines 298-300: Readdirnames returns an error that is not io.EOF, and no names
ReaddirnamesError(w) ==
  /\ Alive
  /\ w.pc = "list"
  /\ w.names = <<>>
  /\ ~ListingEnds(w.directoryPath)
  /\ scanner' = Swap(scanner, w, [w EXCEPT !.pc = "warn"])
  /\ UNCHANGED <<plan, ExcludePatterns, excludePatterns, faults, roots,
                 rootsBeforeRun, addPc, addPath, directoryScanQueue,
                 fileReadQueue, blockQueue, workInProgress, error, reenqueue,
                 reader, terminator, runPc, blockCount, hash, buffered,
                 writerErr, retval, stream, sinkFailed, panicked, produced>>

\* lines 302-309: the error is logged, there is no name to send, and the loop
\* calls Readdirnames again
ReaddirnamesAgain(w) ==
  /\ Alive
  /\ w.pc = "warn"
  /\ scanner' = Swap(scanner, w, [w EXCEPT !.pc = "list"])
  /\ UNCHANGED <<plan, ExcludePatterns, excludePatterns, faults, roots,
                 rootsBeforeRun, addPc, addPath, directoryScanQueue,
                 fileReadQueue, blockQueue, workInProgress, error, reenqueue,
                 reader, terminator, runPc, blockCount, hash, buffered,
                 writerErr, retval, stream, sinkFailed, panicked, produced>>

\* lines 150-152: the goroutine that sends a subdirectory to the queue
ReenqueueSend(p) ==
  /\ Alive
  /\ BagIn(p, reenqueue)
  /\ directoryScanQueue.closed \/ HasRoom(directoryScanQueue, DirScanQueueSize)
  /\ IF directoryScanQueue.closed
     THEN /\ panicked' = PanicClosed
          /\ UNCHANGED <<directoryScanQueue, reenqueue>>
     ELSE /\ directoryScanQueue' = Send(directoryScanQueue, p)
          /\ reenqueue' = reenqueue (-) SetToBag({p})
          /\ UNCHANGED panicked
  /\ UNCHANGED <<plan, ExcludePatterns, excludePatterns, faults, roots,
                 rootsBeforeRun, addPc, addPath, fileReadQueue, blockQueue,
                 workInProgress, error, scanner, reader, terminator, runPc,
                 blockCount, hash, buffered, writerErr, retval, stream,
                 sinkFailed, produced>>

(***************************************************************************)
(* fileReader (lines 183-218).                                              *)
(***************************************************************************)
\* bufferedFile.Read(buffer): the reader's own buffer is smaller than
\* BlockSize, so the read goes to the file and fills the buffer as far as
\* the file reaches
AtEOF(p, offset) == offset >= FileSize(Resolve(p))
\* a read that reports a full buffer whatever the file still holds
BytesReadMutant(p, offset) == BlockSize
BytesRead(p, offset) ==
  IF FileSize(Resolve(p)) - offset < BlockSize
  THEN FileSize(Resolve(p)) - offset ELSE BlockSize

\* the byte the file holds (all of them)
FillByte == 7

\* the blocks of lines 193, 207 and 210
\* a reader that begins a file with an EndOfFile block
StartOfFileBlockMutant(p) == Block(p, 0, NilBuffer, blockTypeEndOfFile, 0, 0, NoMode)
StartOfFileBlock(p) ==
  Block(p, 0, NilBuffer, blockTypeStartOfFile, StatUid(p), StatGid(p), StatMode(p))
DataBlock(p, bytesRead) ==
  Block(p, ToUint16(bytesRead), <<bytesRead, FillByte>>, blockTypeData, 0, 0, NoMode)
\* a reader that closes a file with a second StartOfFile block
EndOfFileBlockMutant(p) ==
  Block(p, 0, NilBuffer, blockTypeStartOfFile, StatUid(p), StatGid(p), StatMode(p))
EndOfFileBlock(p) == Block(p, 0, NilBuffer, blockTypeEndOfFile, 0, 0, NoMode)

\* lines 184-190, 212-216: the range over fileReadQueue takes the next path,
\* or ends; the file is opened, and on an error the reader calls Done()
ReaderReceive(w) ==
  /\ Alive
  /\ w.pc = "recv"
  /\ CanReceive(fileReadQueue) \/ Drained(fileReadQueue)
  /\ IF CanReceive(fileReadQueue)
     THEN LET p == Head(fileReadQueue.buf)
          IN /\ fileReadQueue' = Receive(fileReadQueue)
             /\ \E opens \in {FALSE} \cup {Exists(p)} :
                  IF opens
                  THEN /\ reader' = Swap(reader, w, [w EXCEPT !.pc = "sendStart", !.filePath = p])
                       /\ UNCHANGED <<workInProgress, faults>>
                  ELSE /\ workInProgress' = workInProgress - 1
                       /\ faults' = faults \cup {<<"open", p>>}
                       /\ UNCHANGED reader
     ELSE /\ reader' = Swap(reader, w, [w EXCEPT !.pc = "exit"])
          /\ UNCHANGED <<fileReadQueue, workInProgress, faults>>
  /\ UNCHANGED <<plan, ExcludePatterns, excludePatterns, roots,
                 rootsBeforeRun, addPc, addPath, directoryScanQueue,
                 blockQueue, error, scanner, reenqueue, terminator, runPc,
                 blockCount, hash, buffered, writerErr, retval, stream,
                 sinkFailed, panicked, produced>>

\* a reader sends a block and goes on
ReaderSend(w, block, next) ==
  /\ blockQueue.closed \/ HasRoom(blockQueue, BlockQueueSize)
  /\ IF blockQueue.closed
     THEN /\ panicked' = PanicClosed
          /\ UNCHANGED <<blockQueue, reader>>
     ELSE /\ blockQueue' = Send(blockQueue, block)
          /\ reader' = Swap(reader, w, next)
          /\ UNCHANGED panicked

\* lines 192-193: the StartOfFile block
ReaderSendStart(w) ==
  /\ Alive
  /\ w.pc = "sendStart"
  /\ ReaderSend(w, StartOfFileBlock(w.filePath), [w EXCEPT !.pc = "read"])
  /\ UNCHANGED <<plan, ExcludePatterns, excludePatterns, faults, roots,
                 rootsBeforeRun, addPc, addPath, directoryScanQueue,
                 fileReadQueue, workInProgress, error, scanner, reenqueue,
                 terminator, runPc, blockCount, hash, buffered, writerErr,
                 retval, stream, sinkFailed, produced>>

\* lines 198-207: a chunk is read and sent as a Data block
ReaderSendData(w) ==
  /\ Alive
  /\ w.pc = "read"
  /\ ~AtEOF(w.filePath, w.offset)
  /\ LET n == BytesRead(w.filePath, w.offset)
     IN ReaderSend(w, DataBlock(w.filePath, n), [w EXCEPT !.offset = w.offset + n])
  /\ UNCHANGED <<plan, ExcludePatterns, excludePatterns, faults, roots,
                 rootsBeforeRun, addPc, addPath, directoryScanQueue,
                 fileReadQueue, workInProgress, error, scanner, reenqueue,
                 terminator, runPc, blockCount, hash, buffered, writerErr,
                 retval, stream, sinkFailed, produced>>

\* lines 200-205, 210: io.EOF, or a read error, ends the loop; the EndOfFile
\* block
ReaderSendEnd(w) ==
  /\ Alive
  /\ w.pc = "read"
  /\ ReaderSend(w, EndOfFileBlock(w.filePath), [w EXCEPT !.pc = "close"])
  /\ faults' = IF AtEOF(w.filePath, w.offset) \/ blockQueue.closed THEN faults
               ELSE faults \cup {<<"read", w.filePath>>}
  /\ UNCHANGED <<plan, ExcludePatterns, excludePatterns, roots,
                 rootsBeforeRun, addPc, addPath, directoryScanQueue,
                 fileReadQueue, workInProgress, error, scanner, reenqueue,
                 terminator, runPc, blockCount, hash, buffered, writerErr,
                 retval, stream, sinkFailed, produced>>

\* lines 211, 216: file.Close(), Done()
ReaderClose(w) ==
  /\ Alive
  /\ w.pc = "close"
  /\ workInProgress' = workInProgress - 1
  /\ reader' = Swap(reader, w, ReaderIdle)
  /\ UNCHANGED <<plan, ExcludePatterns, excludePatterns, faults, roots,
                 rootsBeforeRun, addPc, addPath, directoryScanQueue,
                 fileReadQueue, blockQueue, error, scanner, reenqueue,
                 terminator, runPc, blockCount, hash, buffered, writerErr,
                 retval, stream, sinkFailed, panicked, produced>>

(***************************************************************************)
(* archiveWriter (lines 254-278), writeChecksumBlock (lines 280-291) and   *)
(* the end of Run (lines 86-93).  output is io.MultiWriter(a.output, hash): *)
(* every call writes to the bufio.Writer and then to the hash.              *)
(***************************************************************************)
\* output.Write for each of calls: the hash and the buffer afterwards, and
\* whether the sink was written to (it may then have failed)
OutputWriteCalls(hbc) ==
  With(bufioWriteCalls(hbc[2], hbc[3]),
       LAMBDA w : [hash |-> crcWrite(hbc[1], hbc[3]), buffered |-> w[1], touched |-> w[2]])
OutputWrite(h, b, calls) == With(<<h, b, calls>>, OutputWriteCalls)

\* block.writeBlock(output)
WriteBlock(h, b, block) == OutputWrite(h, b, WriteBlockCalls(block))

\* a Sum64 taken before the two calls are hashed
ChecksumValueMutant(h) == crcSum64(h)
\* hash.Sum64() at line 288: the hash has seen the two calls before it
ChecksumValue(h) == crcSum64(crcWrite(h, ChecksumPrefixCalls))

\* writeChecksumBlock(hash, output)
WriteChecksumBlock(h, b) ==
  With(h, LAMBDA h0 : OutputWrite(h0, b, ChecksumCalls(ChecksumValue(h0))))

\* a writer that counts from the block it is about to write
ChecksumDueMutant(count) == (count - 1) % ChecksumInterval = 0
\* line 268: (blockCount%1000) == 0
ChecksumDue(count) == count % ChecksumInterval = 0

\* lines 255-262: the hash, and the magic header
WriterHeader ==
  /\ Alive
  /\ runPc = "header"
  /\ \E w \in {OutputWrite(crcNew, buffered, <<HeaderBytes>>)} :
       \E failed \in {FALSE} \cup {w.touched} :
          /\ hash' = w.hash
          /\ buffered' = w.buffered
          /\ sinkFailed' = failed
          /\ writerErr' = IF failed THEN ErrSink ELSE ErrNil
          /\ runPc' = IF failed THEN "flush" ELSE "loop"
  /\ UNCHANGED <<plan, ExcludePatterns, excludePatterns, faults, roots,
                 rootsBeforeRun, addPc, addPath, directoryScanQueue,
                 fileReadQueue, blockQueue, workInProgress, error, scanner,
                 reenqueue, reader, terminator, blockCount, retval, stream,
                 panicked, produced>>

\* lines 264-275: one block of the queue, and the Checksum block when due
WriterBlock ==
  /\ Alive
  /\ runPc = "loop"
  /\ CanReceive(blockQueue)
  /\ \E block \in {Head(blockQueue.buf)}, due \in {ChecksumDue(blockCount + 1)} :
     \E wb \in {WriteBlock(hash, buffered, block)} :
     \E wc \in {WriteChecksumBlock(wb.hash, wb.buffered)} :
     \E outcome \in {"ok"} \cup (IF wb.touched THEN {"block fails"} ELSE {})
                            \cup (IF due /\ wc.touched THEN {"checksum fails"} ELSE {}) :
          /\ blockQueue' = Receive(blockQueue)
          /\ blockCount' = blockCount + 1
          /\ hash' = IF due THEN wc.hash ELSE wb.hash
          /\ buffered' = IF due THEN wc.buffered ELSE wb.buffered
          /\ stream' =
               IF outcome = "block fails" THEN stream
               ELSE IF outcome = "checksum fails" \/ ~due THEN Append(stream, block)
               ELSE stream \o <<block, ChecksumBlock(ChecksumValue(wb.hash))>>
          /\ sinkFailed' = (outcome # "ok")
          /\ writerErr' = IF outcome = "ok" THEN ErrNil ELSE ErrSink
          /\ runPc' = IF outcome = "ok" THEN "loop" ELSE "flush"
  /\ UNCHANGED <<plan, ExcludePatterns, excludePatterns, faults, roots,
                 rootsBeforeRun, addPc, addPath, directoryScanQueue,
                 fileReadQueue, workInProgress, error, scanner, reenqueue,
                 reader, terminator, retval, panicked, produced>>

\* line 277: the queue is closed and empty: the final Checksum block
WriterFinal ==
  /\ Alive
  /\ runPc = "loop"
  /\ Drained(blockQueue)
  /\ \E wc \in {WriteChecksumBlock(hash, buffered)} :
       \E failed \in {FALSE} \cup {wc.touched} :
          /\ hash' = wc.hash
          /\ buffered' = wc.buffered
          /\ stream' = IF failed THEN stream
                       ELSE Append(stream, ChecksumBlock(ChecksumValue(hash)))
          /\ sinkFailed' = failed
          /\ writerErr' = IF failed THEN ErrSink ELSE ErrNil
  /\ runPc' = "flush"
  /\ UNCHANGED <<plan, ExcludePatterns, excludePatterns, faults, roots,
                 rootsBeforeRun, addPc, addPath, directoryScanQueue,
                 fileReadQueue, blockQueue, workInProgress, error, scanner,
                 reenqueue, reader, terminator, blockCount, retval, panicked,
                 produced>>

\* line 87: a.output.Flush(); what it returns is dropped.  A bufio.Writer
\* that has failed keeps its error and writes nothing more.
RunFlush ==
  /\ Alive
  /\ runPc = "flush"
  /\ \E failed \in {FALSE} \cup {~sinkFailed /\ buffered > 0} :
       /\ sinkFailed' = (sinkFailed \/ failed)
       /\ buffered' = IF sinkFailed \/ failed THEN buffered ELSE 0
  /\ runPc' = "return"
  /\ UNCHANGED <<plan, ExcludePatterns, excludePatterns, faults, roots,
                 rootsBeforeRun, addPc, addPath, directoryScanQueue,
                 fileReadQueue, blockQueue, workInProgress, error, scanner,
                 reenqueue, reader, terminator, blockCount, hash, writerErr,
                 retval, stream, panicked, produced>>

\* a Run that returns the writer's error alone
RunResultMutant(err, aError) == err
\* lines 89-92: the writer's error, or else a.error
RunResult(err, aError) == IF err # ErrNil THEN err ELSE aError

RunReturn ==
  /\ Alive
  /\ runPc = "return"
  /\ retval' = RunResult(writerErr, error)
  /\ runPc' = "returned"
  /\ UNCHANGED <<plan, ExcludePatterns, excludePatterns, faults, roots,
                 rootsBeforeRun, addPc, addPath, directoryScanQueue,
                 fileReadQueue, blockQueue, workInProgress, error, scanner,
                 reenqueue, reader, terminator, blockCount, hash, buffered,
                 writerErr, stream, sinkFailed, panicked, produced>>

(***************************************************************************)
(* The pipeline.                                                            *)
(***************************************************************************)
\* the re-reading of a listing that does not end (lines 298-309)
Retry ==
  \/ \E w \in BagToSet(scanner) : ReaddirnamesError(w)
  \/ \E w \in BagToSet(scanner) : ReaddirnamesAgain(w)

\* every other step of the caller, the workers, the terminator and the writer
Progress ==
  \/ AddDirCall
  \/ AddDirSend
  \/ RunStart
  \/ TerminatorWait
  \/ TerminatorCloseDirs
  \/ TerminatorCloseFiles
  \/ TerminatorCloseBlocks
  \/ \E w \in BagToSet(scanner) : ScannerReceive(w)
  \/ \E w \in BagToSet(scanner) : ScannerAbsolute(w)
  \/ \E w \in BagToSet(scanner) : ScannerAbsoluteDone(w)
  \/ \E w \in BagToSet(scanner) : ScannerSendDir(w)
  \/ \E w \in BagToSet(scanner) : ScannerEntry(w)
  \/ \E w \in BagToSet(scanner) : ScannerSendFile(w)
  \/ \E w \in BagToSet(scanner) : ScannerClose(w)
  \/ \E p \in BagToSet(reenqueue) : ReenqueueSend(p)
  \/ \E w \in BagToSet(reader) : ReaderReceive(w)
  \/ \E w \in BagToSet(reader) : ReaderSendStart(w)
  \/ \E w \in BagToSet(reader) : ReaderSendData(w)
  \/ \E w \in BagToSet(reader) : ReaderSendEnd(w)
  \/ \E w \in BagToSet(reader) : ReaderClose(w)
  \/ WriterHeader
  \/ WriterBlock
  \/ WriterFinal
  \/ RunFlush
  \/ RunReturn

Next == Progress \/ Retry

Spec == Init /\ [][Next]_vars

\* The Go scheduler runs every runnable goroutine: a step of the program that
\* stays possible is taken, and a listing that keeps failing is re-read.
SpecFair == Spec /\ WF_vars(Progress) /\ WF_vars(Retry)

(***************************************************************************)
(* The writer alone.  The scanners and readers are replaced by producers   *)
(* that send the blocks a worker can send, in turn, and the terminator     *)
(* closes blockQueue after any number of them: archiveWriter sees every    *)
(* length of queue, up to MaxBlocks.                                        *)
(***************************************************************************)
\* the blocks of the workers (lines 114, 193, 207, 210)
WorkerBlocks ==
  << DirectoryBlock(PathD), StartOfFileBlock(PathF), DataBlock(PathF, BlockSize),
     DataBlock(PathF, BufSize + 1), DataBlock(PathF, 1), EndOfFileBlock(PathF),
     StartOfFileBlock(PathG), EndOfFileBlock(PathG) >>
ProducerBlock(k) == WorkerBlocks[((k - 1) % Len(WorkerBlocks)) + 1]

\* a worker's send on blockQueue
ProducerSend ==
  /\ Alive
  /\ produced < MaxBlocks
  /\ HasRoom(blockQueue, BlockQueueSize)
  /\ blockQueue' = Send(blockQueue, ProducerBlock(produced + 1))
  /\ produced' = produced + 1
  /\ UNCHANGED <<plan, ExcludePatterns, excludePatterns, faults, roots,
                 rootsBeforeRun, addPc, addPath, directoryScanQueue,
                 fileReadQueue, workInProgress, error, scanner, reenqueue,
                 reader, terminator, runPc, blockCount, hash, buffered,
                 writerErr, retval, stream, sinkFailed, panicked>>

\* Run has started the goroutines; the counter has reached zero and the
\* terminator has closed the first two queues
InitWriter ==
  /\ plan = Plan(<<>>, <<>>, <<>>)
  /\ ExcludePatterns = plan.exclude
  /\ InitArchiver
  /\ directoryScanQueue = Close(MakeChan)
  /\ fileReadQueue = Close(MakeChan)
  /\ blockQueue = MakeChan
  /\ terminator = "closeBlocks"
  /\ runPc = "header"

NextWriter ==
  \/ ProducerSend
  \/ TerminatorCloseBlocks
  \/ WriterHeader
  \/ WriterBlock
  \/ WriterFinal
  \/ RunFlush
  \/ RunReturn

SpecWriter == InitWriter /\ [][NextWriter]_vars

\* The writer alone, when the workers end after a number of blocks that is
\* next to a multiple of the interval between two Checksum blocks.
CloseCounts ==
  {n \in 0..MaxBlocks : n % ChecksumInterval \in {0, 1, ChecksumInterval - 1}}

NextChecksum ==
  \/ ProducerSend
  \/ produced \in CloseCounts /\ TerminatorCloseBlocks
  \/ WriterHeader
  \/ WriterBlock
  \/ WriterFinal
  \/ RunFlush
  \/ RunReturn

SpecChecksum == InitWriter /\ [][NextChecksum]_vars

(***************************************************************************)
(* The stream, as a decoder reads it.                                       *)
(***************************************************************************)
IsChecksum(b) == b.blockType = blockTypeChecksum
WriterEnded == runPc \in {"flush", "return", "returned"}
Returned == runPc = "returned"

\* the blocks of the stream that carry a path, in order
PathBlocks == SelectSeq(stream, LAMBDA b : ~IsChecksum(b))
StreamPaths == {PathBlocks[i].filePath : i \in 1..Len(PathBlocks)}
FileTypes == {blockTypeStartOfFile, blockTypeData, blockTypeEndOfFile}

\* the types of the blocks of a path, in order
TypesOf(p, types) ==
  LET own == SelectSeq(PathBlocks, LAMBDA b : b.filePath = p /\ b.blockType \in types)
  IN [i \in 1..Len(own) |-> own[i].blockType]

\* StartOfFile, Data blocks, and an EndOfFile block last if there is one
FileSequenceBegun(ts) ==
  ts # <<>> =>
    /\ ts[1] = blockTypeStartOfFile
    /\ \A i \in 2..Len(ts) :
         /\ ts[i] # blockTypeStartOfFile
         /\ ts[i] = blockTypeEndOfFile => i = Len(ts)
FileSequenceEnded(ts) == ts # <<>> => Len(ts) >= 2 /\ ts[Len(ts)] = blockTypeEndOfFile

\* the blocks of every path are at most one Directory block and one file
\* sequence, which has ended if ended is true
GroupedByPath(ended) ==
  \A p \in StreamPaths :
    /\ Len(TypesOf(p, {blockTypeDirectory})) <= 1
    /\ FileSequenceBegun(TypesOf(p, FileTypes))
    /\ ended => FileSequenceEnded(TypesOf(p, FileTypes))

\* one registered root is, or lies inside, another
IsPrefix(s, t) == Len(s) <= Len(t) /\ SubSeq(t, 1, Len(s)) = s
Covers(r1, r2) ==
  \/ Clean(r1) = <<".">> /\ ~HasPrefixSlash(r2)
  \/ IsPrefix(Components(Clean(r1)), Components(Clean(r2)))
RootsOverlap ==
  \E i, j \in 1..Len(roots) : i # j /\ Covers(roots[i], roots[j])

\* every root was registered before Run was called
NoLateRoots == Len(plan.late) = 0

C2_RunEventuallyReturns ==
  <>(Returned \/ sinkFailed \/ panicked # "none" \/ ~NoLateRoots)

\* a root registered before Run was called is absolute
AbsoluteRootBeforeRun == \E i \in 1..rootsBeforeRun : IsAbsolute(roots[i])

\* the scanners that are at one of the places pcs
ScannersAt(pcs) ==
  BagCardinality([w \in {v \in BagToSet(scanner) : v.pc \in pcs} |-> scanner[w]])

\* no block that is queued or written has an absolute path
NoAbsoluteBlock ==
  /\ \A i \in 1..Len(blockQueue.buf) : ~IsAbsolute(blockQueue.buf[i].filePath)
  /\ \A i \in 1..Len(PathBlocks) : ~IsAbsolute(PathBlocks[i].filePath)

C3_Returned ==
  (Returned /\ AbsoluteRootBeforeRun) =>
    retval = (IF writerErr # ErrNil THEN writerErr ELSE ErrAbsoluteDirectoryPath)

\* the steps of a scanner on an absolute path: it takes the path, records the
\* error, and calls Done(); none of them sends a block
C3_ScannerSteps ==
  /\ ScannersAt({"start"})' > ScannersAt({"start"}) =>
       /\ workInProgress' = workInProgress
       /\ blockQueue' = blockQueue
  /\ ScannersAt({"start"})' < ScannersAt({"start"}) =>
       /\ error' = ErrAbsoluteDirectoryPath
       /\ workInProgress' = workInProgress
       /\ blockQueue' = blockQueue
  /\ ScannersAt({"absolute"})' < ScannersAt({"absolute"}) =>
       /\ error = ErrAbsoluteDirectoryPath
       /\ workInProgress' = workInProgress - 1
       /\ blockQueue' = blockQueue

C4_SinkFailureReturned == (Returned /\ sinkFailed) => retval # ErrNil

(***************************************************************************)
(* C5: in the stream of a run with no write error a Checksum block follows *)
(* every 1000th block that is not one, so that the Checksum blocks other   *)
(* than the final one are the blocks 1001, 2002, ... of the stream, and    *)
(* once the writer has ended the last block is a Checksum block, for every *)
(* number of blocks.                                                        *)
(***************************************************************************)
C5_ChecksumEvery1000 ==
  ~sinkFailed =>
    /\ \A i \in 1..Len(stream) :
         IsChecksum(stream[i]) <=>
           \/ i % (ChecksumInterval + 1) = 0
           \/ WriterEnded /\ i = Len(stream)
    /\ WriterEnded => stream # <<>> /\ IsChecksum(stream[Len(stream)])
    /\ Len(SelectSeq(stream, LAMBDA b : ~IsChecksum(b))) = blockCount

C5_Witness ==
  /\ Returned /\ ~sinkFailed
  /\ blockCount = ChecksumInterval
  /\ Len(stream) = ChecksumInterval + 2
  /\ IsChecksum(stream[ChecksumInterval + 1])
  /\ IsChecksum(stream[ChecksumInterval + 2])

\* the bytes of a block of the stream, as the calls that wrote them
EncodedCalls(b) ==
  IF IsChecksum(b) THEN ChecksumCalls(b.value) ELSE WriteBlockCalls(b)

\* the hash update of the blocks lo..hi of the stream
RECURSIVE StreamMap(_, _)
StreamMap(lo, hi) ==
  IF lo > hi THEN IdMap
  ELSE IF lo = hi THEN CallsMap(EncodedCalls(stream[lo]))
  ELSE Compose(StreamMap(lo, (lo + hi) \div 2), StreamMap((lo + hi) \div 2 + 1, hi))

\* the hash of every byte of the stream before the value of block i
HashBeforeValue(i) ==
  ApplyMap(Compose(CallsMap(<<HeaderBytes>>),
                   Compose(StreamMap(1, i - 1), CallsMap(ChecksumPrefixCalls))),
           crcNew)

(***************************************************************************)
(* C6: the value of a Checksum block is the hash, started once, of every   *)
(* byte of the stream before the value: the header, every earlier block    *)
(* in full and the Checksum block's own path length and type tag.  Every   *)
(* Checksum block is checked when it is the last block written.            *)
(***************************************************************************)
C6_ChecksumOfAllPrecedingBytes ==
  (stream # <<>> /\ IsChecksum(stream[Len(stream)])) =>
    stream[Len(stream)].value = crcSum64(HashBeforeValue(Len(stream)))

C6_Witness ==
  /\ ~sinkFailed
  /\ Len(stream) = ChecksumInterval + 3
  /\ IsChecksum(stream[ChecksumInterval + 1])
  /\ IsChecksum(stream[ChecksumInterval + 3])
  /\ stream[ChecksumInterval + 3].value # stream[ChecksumInterval + 1].value

\* the blocks that have been sent: queued or written
SentBlocks ==
  {blockQueue.buf[i] : i \in 1..Len(blockQueue.buf)}
  \cup {PathBlocks[i] : i \in 1..Len(PathBlocks)}

(***************************************************************************)
(* C7: the byte count of every Data block is the number of bytes the read  *)
(* returned (kept as the length of the block's buffer contents), it is     *)
(* greater than 0 and at most the chunk size, and the encoded block writes *)
(* that many bytes of the buffer.                                           *)
(***************************************************************************)
C7_DataBlockCarriesTheChunk ==
  \A b \in SentBlocks :
    b.blockType = blockTypeData =>
      /\ b.numBytes = b.buffer[1]
      /\ b.numBytes > 0
      /\ b.numBytes <= BlockSize
      /\ RunsLen(BufferSlice(b.buffer, b.numBytes)) = b.buffer[1]

\* a pattern of the exported field matches the path
ExcludedByCaller(filePath) ==
  \E k \in 1..Len(ExcludePatterns) : Match(ExcludePatterns[k], filePath)

\* the entries of the directories of the stream that are to be archived
EntriesToArchive ==
  {q \in UNION {{Join(p, Readdirnames(p)[k]) : k \in 1..Len(Readdirnames(p))} :
                  p \in {b.filePath : b \in {c \in SentBlocks : c.blockType = blockTypeDirectory}}} :
     ~ExcludedByCaller(q) /\ NodeKind(q) \in {"dir", "file"}}

(***************************************************************************)
(* C8: no block of the stream has a path that a pattern of ExcludePatterns *)
(* matches, and when Run has returned with no failure, its roots           *)
(* registered before it, every entry that no pattern matches is in the     *)
(* stream.                                                                  *)
(***************************************************************************)
C8_SiblingsPresent ==
  (Returned /\ NoLateRoots /\ ~sinkFailed /\ faults = {}) =>
    EntriesToArchive \subseteq StreamPaths

C8_ExcludePatternsRespected ==
  /\ \A i \in 1..Len(PathBlocks) : ~ExcludedByCaller(PathBlocks[i].filePath)
  /\ C8_SiblingsPresent

(***************************************************************************)
(* C9: no block of the stream has the path of a symbolic link or a path    *)
(* underneath one, whether the link is a directory entry or a registered   *)
(* root.                                                                    *)
(***************************************************************************)
AtOrUnderSymlink(p) == \E k \in 1..Len(p) : IsSymlink(SubSeq(p, 1, k))

C9_SymlinksNeverArchived ==
  \A i \in 1..Len(PathBlocks) : ~AtOrUnderSymlink(PathBlocks[i].filePath)

(***************************************************************************)
(* C10: a call of AddDir, before Run or while it runs, never sends on a    *)
(* closed queue, and the path it registers is taken by a scanner of the    *)
(* run: when Run has returned no call is still sending and no registered   *)
(* path is left on the directory queue.                                     *)
(***************************************************************************)
C10_AddDirAtAnyTime ==
  /\ panicked # PanicAddDir
  /\ Returned => addPc = "idle" /\ directoryScanQueue.buf = <<>>

(***************************************************************************)
(* C11.  What a run has to write, read off the tree alone: a walk of the   *)
(* registered roots in depth-first order, one task doing everything.       *)
(***************************************************************************)
\* the blocks of a regular file: its size cut into chunks of BlockSize
RECURSIVE WalkChunks(_, _)
WalkChunks(p, remaining) ==
  IF remaining <= 0 THEN <<>>
  ELSE IF remaining > BlockSize
       THEN <<DataBlock(p, BlockSize)>> \o WalkChunks(p, remaining - BlockSize)
       ELSE <<DataBlock(p, remaining)>>
WalkFile(p) ==
  <<StartOfFileBlock(p)>> \o WalkChunks(p, FileSize(p)) \o <<EndOfFileBlock(p)>>

RECURSIVE WalkDir(_)
RECURSIVE WalkEntries(_, _)
WalkEntry(q) ==
  IF Excluded(q) \/ NodeKind(q) \notin {"dir", "file"} THEN <<>>
  ELSE IF NodeKind(q) = "dir" THEN WalkDir(q) ELSE WalkFile(q)
WalkEntries(p, names) ==
  IF names = <<>> THEN <<>>
  ELSE WalkEntry(Join(p, Head(names))) \o WalkEntries(p, Tail(names))
WalkDir(p) ==
  IF HasPrefixSlash(p) \/ NodeKind(Resolve(p)) = "none" THEN <<>>
  ELSE <<DirectoryBlock(p)>> \o WalkEntries(p, EntryNames(Resolve(p)))
RECURSIVE WalkRoots(_)
WalkRoots(rs) == IF rs = <<>> THEN <<>> ELSE WalkDir(Head(rs)) \o WalkRoots(Tail(rs))

\* a sequence as a multiset
BagOfSeq(s) ==
  [b \in {s[i] : i \in DOMAIN s} |-> Cardinality({i \in DOMAIN s : s[i] = b})]

\* all roots were registered before Run, nothing failed, and Run has returned
QuietRunReturned == Returned /\ NoLateRoots /\ ~sinkFailed /\ faults = {}

\* C11: whatever the interleaving of scanners, readers, re-enqueue tasks and
\* the writer, a run over the unchanged tree that meets no failure ends with
\* the same multiset of logical (non-checksum) blocks in the stream: the one
\* a sequential walk of the roots gives.
C11_SameMultisetOfLogicalBlocks ==
  QuietRunReturned => BagOfSeq(PathBlocks) = BagOfSeq(WalkRoots(plan.early))

\* a run of w/ in which the blocks are not in the order of the walk
C11_Witness ==
  /\ QuietRunReturned
  /\ plan.early = <<PathW>>
  /\ PathBlocks # WalkRoots(plan.early)
  /\ BagOfSeq(PathBlocks) = BagOfSeq(WalkRoots(plan.early))

(***************************************************************************)
(* C12.  The failures a worker handles itself.                              *)
(***************************************************************************)
\* no path the caller registers, before or after Run, is absolute
NoAbsoluteRoot ==
  \A i \in 1..Len(plan.early \o plan.late) : ~HasPrefixSlash((plan.early \o plan.late)[i])

\* C12: when no registered root is absolute and no write to the sink has
\* failed, Run returns nil whatever open, lstat or read failed on the way,
\* and the error field holds nil or ErrAbsoluteDirectoryPath, nothing else.
C12_NonFatalFailuresNotReturned ==
  /\ (Returned /\ NoAbsoluteRoot /\ ~sinkFailed) => retval = ErrNil
  /\ error \in {ErrNil, ErrAbsoluteDirectoryPath}

\* a run of a/ that returned after an lstat, a file open and a file read failed
C12_Witness ==
  /\ Returned /\ NoAbsoluteRoot /\ ~sinkFailed
  /\ plan.early = <<PathA>>
  /\ faults = {<<"lstat", PathAS>>, <<"open", PathG>>, <<"read", PathF>>}
  /\ retval = ErrNil

(***************************************************************************)
(* C13.  What a reader has sent for the file it holds.                      *)
(***************************************************************************)
\* the blocks that carry a path in the order they were sent: written, then
\* still in the queue
SentSeq == PathBlocks \o blockQueue.buf

\* the StartOfFile, Data and EndOfFile blocks sent for a path, in order
SentFileBlocks(p) ==
  SelectSeq(SentSeq, LAMBDA b : b.filePath = p /\ b.blockType \in FileTypes)

\* the bytes the Data blocks of a sequence carry
RECURSIVE DataBytes(_)
DataBytes(bs) ==
  IF bs = <<>> THEN 0
  ELSE (IF Head(bs).blockType = blockTypeData THEN Head(bs).buffer[1] ELSE 0)
       + DataBytes(Tail(bs))

\* StartOfFile, then Data blocks only
StartThenData(bs) ==
  /\ bs # <<>>
  /\ bs[1].blockType = blockTypeStartOfFile
  /\ \A i \in 2..Len(bs) : bs[i].blockType = blockTypeData
\* StartOfFile, Data blocks, EndOfFile
WholeFileSequence(bs) ==
  /\ Len(bs) >= 2
  /\ StartThenData(SubSeq(bs, 1, Len(bs) - 1))
  /\ bs[Len(bs)].blockType = blockTypeEndOfFile

ReadersAt(pcs) ==
  BagCardinality([w \in {v \in BagToSet(reader) : v.pc \in pcs} |-> reader[w]])
ReaderHolds(p) == \E w \in BagToSet(reader) : w.pc \notin {"recv", "exit"} /\ w.filePath = p
SentFilePaths ==
  {SentSeq[i].filePath : i \in {j \in 1..Len(SentSeq) : SentSeq[j].blockType \in FileTypes}}

\* the blocks sent for the file a reader holds, by the place the reader is at;
\* a file no reader holds has a whole sequence or, if its open failed, nothing
C13_ReaderBlocks ==
  (~RootsOverlap /\ ~sinkFailed) =>
    /\ \A w \in BagToSet(reader) :
         /\ w.pc = "sendStart" => SentFileBlocks(w.filePath) = <<>>
         /\ w.pc = "read" =>
              /\ StartThenData(SentFileBlocks(w.filePath))
              /\ DataBytes(SentFileBlocks(w.filePath)) = w.offset
         /\ w.pc = "close" => WholeFileSequence(SentFileBlocks(w.filePath))
    /\ \A p \in SentFilePaths :
         /\ ~ReaderHolds(p) => WholeFileSequence(SentFileBlocks(p))
         /\ <<"open", p>> \notin faults

\* the steps of a reader that call Done(): the open that fails, which sends
\* nothing, and the close after the EndOfFile block; each takes one from the
\* counter, and no other step of a reader changes it
C13_ReaderSteps ==
  /\ (Len(fileReadQueue'.buf) < Len(fileReadQueue.buf) /\ reader' = reader) =>
       /\ workInProgress' = workInProgress - 1
       /\ blockQueue' = blockQueue
  /\ ReadersAt({"close"})' < ReadersAt({"close"}) =>
       /\ workInProgress' = workInProgress - 1
       /\ blockQueue' = blockQueue
  /\ (reader' # reader /\ ReadersAt({"close"})' >= ReadersAt({"close"})) =>
       workInProgress' = workInProgress

\* C13: for every path a reader takes from the file queue: if the open fails
\* no block is sent and the counter is decremented once; if it succeeds the
\* reader sends one StartOfFile, the Data blocks and one EndOfFile whether the
\* file ends, a read fails partway or the file is empty, and closes the file
\* and decrements the counter once only after the EndOfFile was sent.
C13_ReaderSequence == []C13_ReaderBlocks /\ [][C13_ReaderSteps]_vars

\* a run in which the read of a/d/f failed after the first chunk and a/d/g
\* was empty: both have their EndOfFile
C13_Witness ==
  /\ Returned /\ ~RootsOverlap /\ ~sinkFailed
  /\ faults = {<<"read", PathF>>}
  /\ Len(SentFileBlocks(PathF)) = 3
  /\ [i \in 1..3 |-> SentFileBlocks(PathF)[i].blockType] =
       <<blockTypeStartOfFile, blockTypeData, blockTypeEndOfFile>>
  /\ Len(SentFileBlocks(PathG)) = 2
  /\ [i \in 1..2 |-> SentFileBlocks(PathG)[i].blockType] =
       <<blockTypeStartOfFile, blockTypeEndOfFile>>

(***************************************************************************)
(* C14.  The counter and the units of work.                                 *)
(***************************************************************************)
\* the units of work the claim lists: paths waiting in the directory queue
\* and in the file queue, child directories on their way back to the
\* directory queue, and paths a scanner or a reader is working on
OutstandingUnits ==
  Len(directoryScanQueue.buf) + Len(fileReadQueue.buf) + BagCardinality(reenqueue)
  + ScannersAt({"start", "absolute", "sendDir", "list", "warn", "sendFile"})
  + ReadersAt({"sendStart", "read", "close"})

\* the units that were counted and are not yet in a queue: the root AddDir
\* has counted (line 60) and not yet sent (line 61), and the file a scanner
\* has counted (line 141) and not yet sent (line 154)
UnitsInHandOff ==
  (IF addPc = "send" THEN 1 ELSE 0) + ScannersAt({"sendFile"})

\* C14, as stated: the counter is never negative and equals the number of
\* paths waiting in the two queues, child directories being re-enqueued and
\* paths being processed by a scanner or reader.
C14_CounterEqualsListedUnits ==
  /\ workInProgress >= 0
  /\ workInProgress = OutstandingUnits

\* C14, amended: the counter is never negative and equals the units the claim
\* lists plus the units counted and not yet handed to their queue (the root
\* inside AddDir, the file a scanner is about to send); it is zero only when
\* there is no unit of either kind.
C14_CounterEqualsAllUnits ==
  /\ workInProgress >= 0
  /\ workInProgress = OutstandingUnits + UnitsInHandOff
  /\ workInProgress = 0 => OutstandingUnits = 0 /\ UnitsInHandOff = 0

\* a scanner has counted a file and not yet put it on the file queue, while a
\* reader works on another file
C14_Witness ==
  /\ ScannersAt({"sendFile"}) = 1
  /\ ReadersAt({"sendStart", "read", "close"}) = 1
  /\ workInProgress = OutstandingUnits + 1
  /\ workInProgress = 3

(***************************************************************************)
(* C15.  The terminator (lines 79-84).                                      *)
(***************************************************************************)
\* the terminator has left Wait() only with the counter at zero, the queues
\* are closed in the order directories, files, blocks, nothing is counted
\* once the first is closed, and no send has met a closed queue
C15_ClosedInOrder ==
  NoLateRoots =>
    /\ panicked = "none"
    /\ terminator \in {"closeDirs", "closeFiles", "closeBlocks", "done"} =>
         workInProgress = 0 /\ OutstandingUnits = 0
    /\ directoryScanQueue.closed <=> terminator \in {"closeFiles", "closeBlocks", "done"}
    /\ fileReadQueue.closed <=> terminator \in {"closeBlocks", "done"}
    /\ blockQueue.closed <=> terminator = "done"

\* a closed queue is never closed again and never grows
C15_ClosedOnce ==
  NoLateRoots =>
    /\ directoryScanQueue.closed =>
         /\ directoryScanQueue'.closed
         /\ Len(directoryScanQueue'.buf) <= Len(directoryScanQueue.buf)
         /\ terminator' # "closeDirs"
    /\ fileReadQueue.closed =>
         /\ fileReadQueue'.closed
         /\ Len(fileReadQueue'.buf) <= Len(fileReadQueue.buf)
         /\ terminator' \notin {"closeDirs", "closeFiles"}
    /\ blockQueue.closed =>
         /\ blockQueue'.closed
         /\ Len(blockQueue'.buf) <= Len(blockQueue.buf)
         /\ terminator' = "done"

\* C15: with every root registered before Run, the terminator closes each of
\* the three queues once, directories first, then files, then blocks, and
\* only after the counter has reached zero; no scanner, reader or re-enqueue
\* task ever sends on a closed queue.
C15_TerminatorClosesOnceInOrder == []C15_ClosedInOrder /\ [][C15_ClosedOnce]_vars

\* the directory queue is closed, the file queue is not yet, and a scanner is
\* still waiting at the directory queue; a/ has been archived
C15_Witness ==
  /\ NoLateRoots /\ ~sinkFailed
  /\ plan.early = <<PathA>>
  /\ directoryScanQueue.closed /\ ~fileReadQueue.closed
  /\ ScannersAt({"recv"}) >= 1
  /\ workInProgress = 0
  /\ Len(SentSeq) = 8

(***************************************************************************)
(* C16.  A scanner and the directory queue it reads from.                   *)
(***************************************************************************)
\* the next entry of a scanner's listing is a directory that is not excluded
NextEntryIsDirectory(w) ==
  /\ w.pc = "list"
  /\ w.names # <<>>
  /\ ~Excluded(Join(w.directoryPath, Head(w.names)))
  /\ IsDir(Join(w.directoryPath, Head(w.names)))

\* C16: a scanner never waits for room in the directory queue: whenever the
\* next entry of its listing is a subdirectory, the step that counts it and
\* hands it to a task of its own can be taken, also when the queue is full;
\* so the state in which every scanner is blocked sending a subdirectory to
\* the full queue cannot be reached.
C16_ScannerNeverWaitsForDirectoryQueue ==
  \A w \in BagToSet(scanner) :
    (Alive /\ NextEntryIsDirectory(w)) =>
      ENABLED (ScannerEntry(w) /\ workInProgress' = workInProgress + 1)

\* the directory queue is full, the task that re-enqueues w/z waits for room,
\* and the scanner of w/ has gone on to the end of its listing
C16_Witness ==
  /\ Alive
  /\ Len(directoryScanQueue.buf) = DirScanQueueSize
  /\ reenqueue = SetToBag({PathWZ})
  /\ \E w \in BagToSet(scanner) :
       w.pc = "list" /\ w.directoryPath = PathW /\ w.names = <<>>

(***************************************************************************)
(* C17.  The state of the pipeline when Run returns an error.               *)
(***************************************************************************)
\* the three queues are closed and empty
QueuesClosedAndEmpty ==
  /\ Drained(directoryScanQueue)
  /\ Drained(fileReadQueue)
  /\ Drained(blockQueue)

\* C17: whenever Run returns an error that is not nil (an absolute path, a
\* failed write to the sink), the counter is zero, the three queues are closed
\* and empty, and no scanner, reader or re-enqueue task is still at work,
\* waiting at a queue with something to send or holding an open handle.
\* Stated for roots registered before Run.
C17_ErrorReturnedAfterDrain ==
  (Returned /\ NoLateRoots /\ retval # ErrNil) =>
    /\ workInProgress = 0
    /\ QueuesClosedAndEmpty
    /\ OutstandingUnits = 0

(***************************************************************************)
(* C18.  From the block queue to the stream.                                *)
(***************************************************************************)
\* while no write fails, the blocks sent so far (written, then queued) change
\* only by a send that adds one block at the end: the writer moves the head
\* of the queue to the end of the stream, neither dropping, repeating nor
\* reordering a block
C18_SentOrderKept ==
  ~sinkFailed' =>
    \/ SentSeq' = SentSeq
    \/ /\ Len(SentSeq') = Len(SentSeq) + 1
       /\ IsPrefix(SentSeq, SentSeq')
       /\ Len(blockQueue'.buf) = Len(blockQueue.buf) + 1

\* when Run has returned and no write failed, the queue is closed and empty:
\* every block sent is in the stream
C18_NothingLeftBehind ==
  (Returned /\ ~sinkFailed) => blockQueue.closed /\ blockQueue.buf = <<>>

ParentOf(q) ==
  With(Components(q), LAMBDA cs : JoinComponents(SubSeq(cs, 1, Len(cs) - 1)))
\* the paths registered with AddDir
RootSet == {roots[i] : i \in 1..Len(roots)}

\* C19: in every stream the Directory block of a directory comes before every
\* block (Directory, StartOfFile, Data, EndOfFile) of an entry found in it,
\* and so, level by level, before every block of anything below it.
C19_DirectoryBeforeItsEntries ==
  \A i \in 1..Len(PathBlocks) :
    PathBlocks[i].filePath \notin RootSet =>
      \E j \in 1..(i - 1) :
        /\ PathBlocks[j].blockType = blockTypeDirectory
        /\ PathBlocks[j].filePath = ParentOf(PathBlocks[i].filePath)

\* a stream that begins with the Directory blocks of a and a/d and the
\* StartOfFile block of a/d/f
C19_Witness ==
  /\ Returned /\ ~sinkFailed
  /\ Len(PathBlocks) = 8
  /\ [i \in 1..3 |-> PathBlocks[i].filePath] = <<PathA, PathD, PathF>>
  /\ [i \in 1..3 |-> PathBlocks[i].blockType] =
       <<blockTypeDirectory, blockTypeDirectory, blockTypeStartOfFile>>

(***************************************************************************)
(* C20.  The accesses to a.error: Run writes it on line 70 and reads it on  *)
(* line 92, a scanner writes it on line 98.                                 *)
(***************************************************************************)
\* a scanner is about to execute line 98
ScannerWritesError == ScannersAt({"start"}) >= 1
\* Run is about to execute line 70, or line 92 (which it reaches when the
\* writer returned no error)
RunAccessesError == runPc = "new" \/ (runPc = "return" /\ writerErr = ErrNil)

\* C20: the error field is never about to be written by two scanners at once,
\* with nothing ordering the two writes, nor by a scanner while Run is about
\* to reset or read it.  Stated for roots registered before Run.
C20_ErrorSlotAccessesOrdered ==
  NoLateRoots =>
    /\ ScannersAt({"start"}) <= 1
    /\ ~(ScannerWritesError /\ RunAccessesError)

====
